---- MODULE Spec2Model ----
(***************************************************************************)
(* A model of etag (src/index.js): the entity-tag dispatcher etag, the     *)
(* content path entitytag with its fingerprint cache (hashCache and the    *)
(* key list hashCacheKeys), and the metadata path stattag with its         *)
(* time-bounded cache statCache.                                           *)
(*                                                                         *)
(* JavaScript values are records with a "kind".  A string is a value (its  *)
(* sequence of UTF-16 code units); a Buffer is an object: a reference into *)
(* heap, whose bytes the caller may overwrite in place.  Tags and cache    *)
(* keys are strings, built by concatenation as the code builds them.       *)
(***************************************************************************)
EXTENDS Integers, Sequences, FiniteSets, TLC

VARIABLES
  heap,           \* the caller's Buffer objects: reference -> bytes
  hashCache,      \* Map: fingerprint key -> [entity, tag]
  hashCacheKeys,  \* array of fingerprint keys, in order of insertion
  statCache,      \* Map: "ino-mtime" -> [strongTag, weakTag, timestamp]
  now,            \* the value Date.now() returns
  ret,            \* what the last call of etag returned ("TypeError": it threw)
  last            \* the branches the last call took

vars == <<heap, hashCache, hashCacheKeys, statCache, now, ret, last>>

(***************************************************************************)
(* Bounds of the model.                                                    *)
(***************************************************************************)
MaxKeys == 3    \* longest hashCacheKeys the model follows
MaxNow == 3     \* last clock value the model follows

(***************************************************************************)
(* Cache configuration.  The source sets HASH_CACHE_SIZE = 1000 and        *)
(* STAT_CACHE_TTL = 5000 (ms); the model keeps the comparisons and scales  *)
(* the values (one clock unit stands for 2500 ms).                         *)
(***************************************************************************)
HASH_CACHE_SIZE == 2
STAT_CACHE_TTL == 2

\* a variant of line 43: the digest of another input
EMPTY_TAG_other == "\"0-2jmj7l5rSw0yVb/vlWAYkK/YBwl\""

EMPTY_TAG == "\"0-2jmj7l5rSw0yVb/vlWAYkK/YBwk\""

\* a variant of line 44: the weak constant is the strong one
WEAK_EMPTY_TAG_bare == EMPTY_TAG

WEAK_EMPTY_TAG == "W/" \o EMPTY_TAG

(***************************************************************************)
(* Values the caller draws its arguments from.                             *)
(***************************************************************************)
Bytes == {97, 98}
BufRefs == {1, 2, 3}

\* the Buffers the caller allocated: two of three bytes "aaa", one empty
InitHeap == <<(<<97, 97, 97>>), (<<97, 97, 97>>), (<<>>)>>

\* the stand-in for the IEEE not-a-number charCodeAt returns out of range
NaN == -1

Str(chars) == [kind |-> "string", chars |-> chars]
Buf(ref) == [kind |-> "buffer", ref |-> ref]

\* a property value of an object: its type tag and its number (ms for a Date)
DateV(ms) == [t |-> "Date", v |-> ms]
NumV(n) == [t |-> "number", v |-> n]
StrV == [t |-> "string", v |-> 0]
Absent == [t |-> "absent", v |-> 0]

Obj(kind, ctime, mtime, ino, size) ==
  [kind |-> kind, ctime |-> ctime, mtime |-> mtime, ino |-> ino, size |-> size]

\* a genuine fs.Stats and a plain object of the same shape
Stat(kind, ino, mtime, size) ==
  Obj(kind, DateV(0), DateV(mtime), NumV(ino), NumV(size))

Buffers == {Buf(r) : r \in BufRefs}

\* "aaa", "a<e-acute>a", "aa<e-acute>": the last two share a fingerprint key,
\* "aaa" shares one with the Buffers as allocated
CollidingTexts ==
  {Str(<<97, 97, 97>>), Str(<<97, 233, 97>>), Str(<<97, 97, 233>>)}

\* texts of five different fingerprint keys
KeyedTexts ==
  {Str(<<97>>), Str(<<233>>), Str(<<97, 97>>), Str(<<98, 97>>), Str(<<97, 97, 97>>)}

\* "", "a", a Buffer of three bytes and the empty Buffer
FewPayloads == {Str(<<>>), Str(<<97>>), Buf(2), Buf(3)}

\* three cache keys; two descriptors of key "1-0" differ in size alone
Descriptors ==
  { Stat("Stats", 1, 0, 0), Stat("object", 1, 0, 26),
    Stat("object", 1, 255, 26), Stat("Stats", 2, 255, 0) }

FewDescriptors == {Stat("Stats", 1, 0, 0), Stat("object", 1, 0, 26)}

\* a genuine fs.Stats whose ctime the caller overwrote with a number
OddStats == {Obj("Stats", NumV(0), DateV(0), NumV(1), NumV(0))}

\* null, undefined, a number, {} and objects that miss the shape
Invalids ==
  { [kind |-> "null"], [kind |-> "undefined"], [kind |-> "number"],
    Obj("object", Absent, Absent, Absent, Absent),
    Obj("object", DateV(0), NumV(0), NumV(1), NumV(0)),
    Obj("object", DateV(0), DateV(0), StrV, NumV(0)) }

\* options: absent, {weak: true}, {weak: false}, {weak: 'yes'}
NoOptions == [kind |-> "undefined"]
Options ==
  { NoOptions,
    [kind |-> "object", weak |-> [t |-> "boolean", b |-> TRUE]],
    [kind |-> "object", weak |-> [t |-> "boolean", b |-> FALSE]],
    [kind |-> "object", weak |-> [t |-> "string", b |-> TRUE]] }

(***************************************************************************)
(* Conversions.                                                            *)
(***************************************************************************)
Digit == <<"0", "1", "2", "3", "4", "5", "6", "7",
           "8", "9", "a", "b", "c", "d", "e", "f">>

\* Number.prototype.toString(radix) of a non-negative integer, or of NaN
RECURSIVE toString(_, _)
toString(n, radix) ==
  IF n = NaN THEN "NaN"
  ELSE IF n < radix THEN Digit[n + 1]
  ELSE toString(n \div radix, radix) \o Digit[(n % radix) + 1]

\* the UTF-8 encoding of one code unit (no surrogates among Chars)
Utf8Char(c) ==
  IF c < 128 THEN <<c>>
  ELSE IF c < 2048 THEN <<192 + (c \div 64), 128 + (c % 64)>>
  ELSE <<224 + (c \div 4096), 128 + ((c \div 64) % 64), 128 + (c % 64)>>

RECURSIVE Utf8(_)
Utf8(chars) ==
  IF chars = <<>> THEN <<>> ELSE Utf8Char(Head(chars)) \o Utf8(Tail(chars))

\* Buffer.byteLength(str, 'utf8')
byteLength(chars) == Len(Utf8(chars))

\* String.prototype.charCodeAt, index from 0
charCodeAt(chars, i) == IF i < Len(chars) THEN chars[i + 1] ELSE NaN

\* the bytes of a payload as the hash sees them: update(entity, 'utf8')
BytesOf(entity, h) ==
  IF entity.kind = "buffer" THEN h[entity.ref] ELSE Utf8(entity.chars)

\* entity.length: bytes of a Buffer, code units of a string
length(entity, h) ==
  IF entity.kind = "buffer" THEN Len(h[entity.ref]) ELSE Len(entity.chars)

RECURSIVE HexBytes(_)
HexBytes(bytes) ==
  IF bytes = <<>> THEN ""
  ELSE toString(Head(bytes), 16) \o "." \o HexBytes(Tail(bytes))

(***************************************************************************)
(* createHash('sha1').update(..).digest('base64').substring(0, 27).  SHA-1 *)
(* is idealised as collision-free: the digest of a non-empty input is a    *)
(* rendering of its bytes; the digest of the empty input is the real one.  *)
(***************************************************************************)
sha1(bytes) ==
  IF bytes = <<>> THEN "2jmj7l5rSw0yVb/vlWAYkK/YBwk"
  ELSE "sha1(" \o HexBytes(bytes) \o ")"

\* the tag of lines 79-85, computed with no cache
StrongTag(bytes) == "\"" \o toString(Len(bytes), 16) \o "-" \o sha1(bytes) \o "\""

(***************************************************************************)
(* Maps.                                                                   *)
(***************************************************************************)
MapSet(m, k, v) == [x \in (DOMAIN m) \cup {k} |-> IF x = k THEN v ELSE m[x]]
MapDelete(m, k) == [x \in (DOMAIN m) \ {k} |-> m[x]]
MapSize(m) == Cardinality(DOMAIN m)
EmptyMap == [x \in {} |-> 0]

\* the argument of the last call and the branches the call took
Path(p, evicted, swept, arg) ==
  [path |-> p, evicted |-> evicted, swept |-> swept, arg |-> arg]

(***************************************************************************)
(* entitytag (lines 55-96).                                                *)
(***************************************************************************)
\* lines 61-70: length, first and last byte (or code unit) of the payload
entityCacheKey(entity, h) ==
  LET isBuffer == entity.kind = "buffer"
      len == IF isBuffer THEN Len(h[entity.ref]) ELSE byteLength(entity.chars)
  IN IF isBuffer
     THEN toString(len, 10) \o "-" \o toString(h[entity.ref][1], 10)
            \o "-" \o toString(h[entity.ref][len], 10)
     ELSE toString(len, 10) \o "-" \o toString(charCodeAt(entity.chars, 0), 10)
            \o "-" \o toString(charCodeAt(entity.chars, len - 1), 10)

\* a variant of line 74: the key alone decides
cachedIs_key_only(cache, cacheKey, entity) == cacheKey \in DOMAIN cache

\* line 74: cached && cached.entity === entity.  === on two strings compares
\* their code units, on two Buffers their identity
cachedIs(cache, cacheKey, entity) ==
  /\ cacheKey \in DOMAIN cache
  /\ cache[cacheKey].entity = entity

\* line 88
atCapacity(cache) == MapSize(cache) >= HASH_CACHE_SIZE

\* lines 89-90: shift() of an empty array gives undefined, which is no key
shiftKeys(keys) == IF keys = <<>> THEN keys ELSE Tail(keys)
deleteOldest(cache, keys) ==
  IF keys = <<>> THEN cache ELSE MapDelete(cache, Head(keys))

\* a variant of entitytag: a hit moves the key to the end of the key list
entitytag_touch(entity, weak) ==
  IF length(entity, heap) = 0
  THEN /\ ret' = IF weak THEN WEAK_EMPTY_TAG ELSE EMPTY_TAG
       /\ last' = Path("empty", FALSE, FALSE, entity)
       /\ UNCHANGED <<hashCache, hashCacheKeys>>
  ELSE
    LET len == Len(BytesOf(entity, heap))
        cacheKey == entityCacheKey(entity, heap)
    IN
      IF cachedIs(hashCache, cacheKey, entity)
      THEN /\ ret' = IF weak THEN "W/" \o hashCache[cacheKey].tag
                             ELSE hashCache[cacheKey].tag
           /\ last' = Path("hit", FALSE, FALSE, entity)
           /\ hashCacheKeys' =
                Append(SelectSeq(hashCacheKeys, LAMBDA k : k # cacheKey), cacheKey)
           /\ UNCHANGED hashCache
      ELSE
        LET hash == sha1(BytesOf(entity, heap))
            tag == "\"" \o toString(len, 16) \o "-" \o hash \o "\""
            full == atCapacity(hashCache)
            keys1 == IF full THEN shiftKeys(hashCacheKeys) ELSE hashCacheKeys
            map1 == IF full THEN deleteOldest(hashCache, hashCacheKeys)
                            ELSE hashCache
        IN /\ hashCacheKeys' = Append(keys1, cacheKey)
           /\ hashCache' = MapSet(map1, cacheKey, [entity |-> entity, tag |-> tag])
           /\ ret' = IF weak THEN "W/" \o tag ELSE tag
           /\ last' = Path(IF cacheKey \in DOMAIN hashCache THEN "mismatch" ELSE "miss",
                           full, FALSE, entity)

\* lines 55-96
entitytag(entity, weak) ==
  IF length(entity, heap) = 0
  THEN /\ ret' = IF weak THEN WEAK_EMPTY_TAG ELSE EMPTY_TAG
       /\ last' = Path("empty", FALSE, FALSE, entity)
       /\ UNCHANGED <<hashCache, hashCacheKeys>>
  ELSE
    LET len == Len(BytesOf(entity, heap))
        cacheKey == entityCacheKey(entity, heap)
    IN
      IF cachedIs(hashCache, cacheKey, entity)
      THEN /\ ret' = IF weak THEN "W/" \o hashCache[cacheKey].tag
                             ELSE hashCache[cacheKey].tag
           /\ last' = Path("hit", FALSE, FALSE, entity)
           /\ UNCHANGED <<hashCache, hashCacheKeys>>
      ELSE
        LET hash == sha1(BytesOf(entity, heap))
            tag == "\"" \o toString(len, 16) \o "-" \o hash \o "\""
            full == atCapacity(hashCache)
            keys1 == IF full THEN shiftKeys(hashCacheKeys) ELSE hashCacheKeys
            map1 == IF full THEN deleteOldest(hashCache, hashCacheKeys)
                            ELSE hashCache
        IN /\ hashCacheKeys' = Append(keys1, cacheKey)
           /\ hashCache' = MapSet(map1, cacheKey, [entity |-> entity, tag |-> tag])
           /\ ret' = IF weak THEN "W/" \o tag ELSE tag
           /\ last' = Path(IF cacheKey \in DOMAIN hashCache THEN "mismatch" ELSE "miss",
                           full, FALSE, entity)

(***************************************************************************)
(* stattag (lines 163-205).                                                *)
(***************************************************************************)
\* line 169
statCacheKey(stat) == toString(stat.ino.v, 10) \o "-" \o toString(stat.mtime.v, 10)

\* variants of line 174: <= for <, and a window one unit short
fresh_inclusive(cache, cacheKey, t) ==
  /\ cacheKey \in DOMAIN cache
  /\ (t - cache[cacheKey].timestamp) <= STAT_CACHE_TTL

fresh_short(cache, cacheKey, t) ==
  /\ cacheKey \in DOMAIN cache
  /\ (t - cache[cacheKey].timestamp) < STAT_CACHE_TTL - 1

\* line 174: cached && (now - cached.timestamp) < STAT_CACHE_TTL
fresh(cache, cacheKey, t) ==
  /\ cacheKey \in DOMAIN cache
  /\ (t - cache[cacheKey].timestamp) < STAT_CACHE_TTL

\* a variant of lines 179-181: the numbers in decimal
statTagOf_decimal(size, mtime) ==
  "\"" \o toString(size, 10) \o "-" \o toString(mtime, 10) \o "\""

\* lines 179-181
statTagOf(size, mtime) ==
  "\"" \o toString(size, 16) \o "-" \o toString(mtime, 16) \o "\""

\* a variant of lines 195-196: an entry goes only when older than the TTL
sweep_strict(cache, t) ==
  IF MapSize(cache) > HASH_CACHE_SIZE
  THEN LET keysToDelete ==
             {k \in DOMAIN cache : (t - cache[k].timestamp) > STAT_CACHE_TTL}
       IN [k \in (DOMAIN cache) \ keysToDelete |-> cache[k]]
  ELSE cache

\* lines 192-202
sweep(cache, t) ==
  IF MapSize(cache) > HASH_CACHE_SIZE
  THEN LET keysToDelete ==
             {k \in DOMAIN cache : (t - cache[k].timestamp) >= STAT_CACHE_TTL}
       IN [k \in (DOMAIN cache) \ keysToDelete |-> cache[k]]
  ELSE cache

\* a variant of stattag: a young entry serves the call only when its tag is
\* that of the size supplied
stattag_reverify(stat, weak) ==
  LET mtime == stat.mtime.v
      size == stat.size.v
      cacheKey == statCacheKey(stat)
  IN
    IF fresh(statCache, cacheKey, now)
         /\ statCache[cacheKey].strongTag = statTagOf(size, mtime)
    THEN /\ ret' = IF weak THEN statCache[cacheKey].weakTag
                           ELSE statCache[cacheKey].strongTag
         /\ last' = Path("stat_hit", FALSE, FALSE, stat)
         /\ UNCHANGED statCache
    ELSE
      LET tag == statTagOf(size, mtime)
          weakTag == "W/" \o tag
          map1 == MapSet(statCache, cacheKey,
                         [strongTag |-> tag, weakTag |-> weakTag, timestamp |-> now])
      IN /\ statCache' = sweep(map1, now)
         /\ ret' = IF weak THEN weakTag ELSE tag
         /\ last' = Path(IF cacheKey \in DOMAIN statCache THEN "stat_expired"
                                                           ELSE "stat_miss",
                         FALSE, MapSize(map1) > HASH_CACHE_SIZE, stat)

\* lines 163-205
stattag(stat, weak) ==
  LET mtime == stat.mtime.v
      size == stat.size.v
      cacheKey == statCacheKey(stat)
  IN
    IF fresh(statCache, cacheKey, now)
    THEN /\ ret' = IF weak THEN statCache[cacheKey].weakTag
                           ELSE statCache[cacheKey].strongTag
         /\ last' = Path("stat_hit", FALSE, FALSE, stat)
         /\ UNCHANGED statCache
    ELSE
      LET tag == statTagOf(size, mtime)
          weakTag == "W/" \o tag
          map1 == MapSet(statCache, cacheKey,
                         [strongTag |-> tag, weakTag |-> weakTag, timestamp |-> now])
      IN /\ statCache' = sweep(map1, now)
         /\ ret' = IF weak THEN weakTag ELSE tag
         /\ last' = Path(IF cacheKey \in DOMAIN statCache THEN "stat_expired"
                                                           ELSE "stat_miss",
                         FALSE, MapSize(map1) > HASH_CACHE_SIZE, stat)

\* a variant of isstats: the types of ino and size go unchecked
isstats_loose(obj) ==
  IF obj.kind = "Stats" THEN TRUE
  ELSE /\ obj.kind = "object"
       /\ obj.ctime.t = "Date"
       /\ obj.mtime.t = "Date"

(***************************************************************************)
(* isstats (lines 140-152), as a truth value.                              *)
(***************************************************************************)
isstats(obj) ==
  IF obj.kind = "Stats" THEN TRUE
  ELSE /\ obj.kind = "object"
       /\ obj.ctime.t = "Date"
       /\ obj.mtime.t = "Date"
       /\ obj.ino.t = "number"
       /\ obj.size.t = "number"

(***************************************************************************)
(* etag (lines 108-130).                                                   *)
(***************************************************************************)
\* a variant of lines 115-117: options.weak taken for its truthiness
Weak_truthy(entity, options) ==
  IF options.kind = "object" THEN options.weak.b ELSE isstats(entity)

\* lines 115-117
Weak(entity, options) ==
  IF options.kind = "object" /\ options.weak.t = "boolean"
  THEN options.weak.b
  ELSE isstats(entity)

etag(entity, options) ==
  IF entity.kind \in {"null", "undefined"}
  THEN /\ ret' = "TypeError"
       /\ last' = Path("throw", FALSE, FALSE, entity)
       /\ UNCHANGED <<hashCache, hashCacheKeys, statCache>>
  ELSE
    LET isStats == isstats(entity)
        weak == Weak(entity, options)
    IN
      IF ~isStats /\ entity.kind # "string" /\ entity.kind # "buffer"
      THEN /\ ret' = "TypeError"
           /\ last' = Path("throw", FALSE, FALSE, entity)
           /\ UNCHANGED <<hashCache, hashCacheKeys, statCache>>
      ELSE IF isStats
      THEN stattag(entity, weak) /\ UNCHANGED <<hashCache, hashCacheKeys>>
      ELSE entitytag(entity, weak) /\ UNCHANGED statCache

(***************************************************************************)
(* The caller's steps.                                                     *)
(***************************************************************************)
CallPayload(P) ==
  \E entity \in P, options \in Options :
    /\ etag(entity, options)
    /\ Len(hashCacheKeys') <= MaxKeys
    /\ UNCHANGED <<heap, now>>

CallStats(D) ==
  \E entity \in D, options \in Options :
    /\ etag(entity, options)
    /\ UNCHANGED <<heap, now>>

CallInvalid ==
  \E entity \in Invalids, options \in Options :
    /\ etag(entity, options)
    /\ UNCHANGED <<heap, now>>

\* buf[i] = b: the caller overwrites one byte of a Buffer it holds
BufWrite(R) ==
  \E r \in R, b \in Bytes :
    \E i \in 1..Len(heap[r]) :
      /\ heap[r][i] # b
      /\ heap' = [heap EXCEPT ![r][i] = b]
      /\ UNCHANGED <<hashCache, hashCacheKeys, statCache, now, ret, last>>

\* time passes
Tick ==
  /\ now < MaxNow
  /\ now' = now + 1
  /\ UNCHANGED <<heap, hashCache, hashCacheKeys, statCache, ret, last>>

Init ==
  /\ heap = InitHeap
  /\ hashCache = EmptyMap
  /\ hashCacheKeys = <<>>
  /\ statCache = EmptyMap
  /\ now = 0
  /\ ret = ""
  /\ last = Path("init", FALSE, FALSE, NoOptions)

\* every kind of call, over a few arguments, while time passes
Next ==
  \/ CallPayload(FewPayloads)
  \/ CallStats(FewDescriptors \cup OddStats)
  \/ CallInvalid
  \/ Tick

\* payloads that collide and a Buffer overwritten in place
HashNext ==
  \/ CallPayload({Buf(1), Buf(2)} \cup CollidingTexts)
  \/ BufWrite({1})

\* two Buffers of one key, one of them overwritten in place
OverwriteNext ==
  \/ CallPayload({Buf(1), Buf(2)})
  \/ BufWrite({1})

\* payloads of many keys: the content cache fills and evicts
CapNext == CallPayload(Buffers \cup KeyedTexts)

\* descriptors while time passes
StatNext ==
  \/ CallStats(Descriptors)
  \/ Tick

Spec == Init /\ [][Next]_vars
HashSpec == Init /\ [][HashNext]_vars
OverwriteSpec == Init /\ [][OverwriteNext]_vars
CapSpec == Init /\ [][CapNext]_vars
StatSpec == Init /\ [][StatNext]_vars

(***************************************************************************)
(* What the claims speak of.                                               *)
(***************************************************************************)
PayloadArgs == Buffers \cup CollidingTexts \cup KeyedTexts \cup FewPayloads
StatArgs == Descriptors \cup FewDescriptors

\* the step is a call etag(entity, options)
Called(entity, options) == etag(entity, options) /\ UNCHANGED <<heap, now>>

\* the same, with the argument recorded in last compared first
CalledWith(entity, options) == last'.arg = entity /\ Called(entity, options)

NonEmpty(entity) == length(entity, heap) > 0

\* the position in keys of the push that came with the current value of k
LastIndex(keys, k) ==
  CHOOSE i \in 1..Len(keys) : keys[i] = k /\ \A j \in (i + 1)..Len(keys) : keys[j] # k

\* the key whose current value was inserted earliest
Oldest(cache, keys) ==
  CHOOSE k \in DOMAIN cache :
    \A j \in DOMAIN cache : LastIndex(keys, k) <= LastIndex(keys, j)

(***************************************************************************)
(* C1.  Collision safety: whatever was called before, etag of a non-empty  *)
(* string or Buffer returns the tag computed from the bytes the payload    *)
(* has at the call (strong, or the same with W/ in front), never the tag   *)
(* of other bytes that share its fingerprint key.                          *)
(***************************************************************************)
C1_CollisionSafety ==
  [][\A entity \in PayloadArgs, options \in Options :
       (Called(entity, options) /\ NonEmpty(entity)) =>
         ret' \in { StrongTag(BytesOf(entity, heap)),
                    "W/" \o StrongTag(BytesOf(entity, heap)) }]_vars

(***************************************************************************)
(* C2.  Lookup protocol: when the fingerprint key of the payload is in the *)
(* cache with a payload of the same type, the call is served from the      *)
(* cache if and only if the content that was cached (the bytes its tag was *)
(* computed from) equals the content of the incoming payload.              *)
(***************************************************************************)
C2_LookupByContent ==
  [][\A entity \in PayloadArgs, options \in Options :
       LET cacheKey == entityCacheKey(entity, heap) IN
         ( /\ Called(entity, options)
           /\ NonEmpty(entity)
           /\ cacheKey \in DOMAIN hashCache
           /\ hashCache[cacheKey].entity.kind = entity.kind ) =>
           ( last'.path = "hit" <=>
               hashCache[cacheKey].tag = StrongTag(BytesOf(entity, heap)) )]_vars

(***************************************************************************)
(* C3.  Capacity bound: the content cache never holds more than            *)
(* HASH_CACHE_SIZE entries.                                                *)
(***************************************************************************)
C3_CapacityBound == MapSize(hashCache) <= HASH_CACHE_SIZE

(***************************************************************************)
(* C4.  FIFO eviction: a call that inserts a new key into a cache holding  *)
(* HASH_CACHE_SIZE entries removes the entry whose current value was       *)
(* inserted earliest, keeps every other entry as it was and adds the new   *)
(* one.                                                                    *)
(***************************************************************************)
C4_FifoEviction ==
  [][\A entity \in PayloadArgs, options \in Options :
       LET cacheKey == entityCacheKey(entity, heap) IN
         ( /\ Called(entity, options)
           /\ NonEmpty(entity)
           /\ cacheKey \notin DOMAIN hashCache
           /\ MapSize(hashCache) = HASH_CACHE_SIZE ) =>
           /\ cacheKey \in DOMAIN hashCache'
           /\ hashCache' =
                MapSet(MapDelete(hashCache, Oldest(hashCache, hashCacheKeys)),
                       cacheKey, hashCache'[cacheKey])]_vars

(***************************************************************************)
(* The weak-or-strong choice as the interface states it: options.weak when *)
(* it is a boolean, else weak for a descriptor and strong for a payload.   *)
(***************************************************************************)
WeakTrue == [kind |-> "object", weak |-> [t |-> "boolean", b |-> TRUE]]
WeakFalse == [kind |-> "object", weak |-> [t |-> "boolean", b |-> FALSE]]

ExpectedWeak(entity, options) ==
  IF options = WeakTrue THEN TRUE
  ELSE IF options = WeakFalse THEN FALSE
  ELSE entity \in StatArgs

Prefix(weak) == IF weak THEN "W/" ELSE ""

IsWeakTag(tag) == Len(tag) >= 2 /\ SubSeq(tag, 1, 2) = "W/"
IsStrongTag(tag) == Len(tag) >= 2 /\ SubSeq(tag, 1, 1) = "\""

\* "<hex of size>-<hex of mtime>", in quotes
MetadataTag(size, mtime) ==
  "\"" \o toString(size, 16) \o "-" \o toString(mtime, 16) \o "\""

SizesUsed == {d.size.v : d \in StatArgs}

\* an entry of the key that is younger than the TTL
Young(cacheKey) ==
  /\ cacheKey \in DOMAIN statCache
  /\ now - statCache[cacheKey].timestamp < STAT_CACHE_TTL

(***************************************************************************)
(* C5, as stated.  Metadata tag format: etag of a descriptor returns the   *)
(* tag "<hex size>-<hex mtime>" of the descriptor's own size and mtime,    *)
(* with W/ in front when weak is selected, in every cache state and at     *)
(* every clock value.                                                      *)
(***************************************************************************)
C5_OwnSizeAlways ==
  [][\A stat \in StatArgs, options \in Options :
       Called(stat, options) =>
         ret' = Prefix(ExpectedWeak(stat, options))
                  \o MetadataTag(stat.size.v, stat.mtime.v)]_vars

(***************************************************************************)
(* C5, amended.  The tag is "<hex size>-<hex of the descriptor's mtime>",  *)
(* with W/ in front when weak is selected; the size is the descriptor's    *)
(* own when the call recomputes (no entry of its key, or one at least the  *)
(* TTL old), and is the size held in the entry, that of some earlier       *)
(* descriptor of the same inode and mtime, when the entry is younger than  *)
(* the TTL.  From an empty cache size 0, mtime 0, ino 1 gives W/"0-0".     *)
(***************************************************************************)
C5_MetadataTagFormat ==
  [][\A stat \in StatArgs, options \in Options :
       LET cacheKey == statCacheKey(stat)
           prefix == Prefix(ExpectedWeak(stat, options))
       IN Called(stat, options) =>
            /\ ~Young(cacheKey) =>
                 ret' = prefix \o MetadataTag(stat.size.v, stat.mtime.v)
            /\ Young(cacheKey) =>
                 /\ ret' = prefix \o statCache[cacheKey].strongTag
                 /\ \E size \in SizesUsed :
                      ret' = prefix \o MetadataTag(size, stat.mtime.v)
            /\ ( /\ statCache = EmptyMap
                 /\ stat.size.v = 0 /\ stat.mtime.v = 0 /\ stat.ino.v = 1
                 /\ options = NoOptions ) => ret' = "W/\"0-0\""]_vars

\* a recomputed tag shows both numbers in hexadecimal
C5_Witness ==
  /\ last.path \in {"stat_miss", "stat_expired"}
  /\ ret = "W/\"1a-ff\""

(***************************************************************************)
(* C6.  TTL validity: a call is served from the metadata cache only by an  *)
(* entry with now - timestamp < STAT_CACHE_TTL; a call that finds an entry *)
(* with now - timestamp >= STAT_CACHE_TTL returns the tag of the supplied  *)
(* descriptor and leaves under the key that strong tag, its weak form and  *)
(* the timestamp now.                                                      *)
(***************************************************************************)
C6_TtlValidity ==
  [][\A stat \in StatArgs, options \in Options :
       LET cacheKey == statCacheKey(stat)
           own == MetadataTag(stat.size.v, stat.mtime.v)
       IN Called(stat, options) =>
            /\ last'.path = "stat_hit" =>
                 /\ cacheKey \in DOMAIN statCache
                 /\ now - statCache[cacheKey].timestamp < STAT_CACHE_TTL
            /\ ( /\ cacheKey \in DOMAIN statCache
                 /\ now - statCache[cacheKey].timestamp >= STAT_CACHE_TTL ) =>
                 /\ ret' \in {own, "W/" \o own}
                 /\ cacheKey \in DOMAIN statCache'
                 /\ statCache'[cacheKey] =
                      [strongTag |-> own, weakTag |-> "W/" \o own, timestamp |-> now]]_vars

\* an expired entry was replaced by one of another size
C6_Witness ==
  /\ last.path = "stat_expired"
  /\ ret \in {"\"1a-0\"", "W/\"1a-0\""}
  /\ statCache["1-0"].timestamp = now

(***************************************************************************)
(* C7.  Within the TTL window a call on a cached descriptor returns the    *)
(* cached tag and changes nothing in the metadata cache, the timestamp of  *)
(* the entry included: reads do not extend the window, and an entry        *)
(* inserted at t serves no call at t + STAT_CACHE_TTL or later.            *)
(***************************************************************************)
C7_HitWithinTtl ==
  [][\A stat \in StatArgs, options \in Options :
       LET cacheKey == statCacheKey(stat) IN
         Called(stat, options) =>
           /\ Young(cacheKey) =>
                /\ last'.path = "stat_hit"
                /\ ret' \in {statCache[cacheKey].strongTag, statCache[cacheKey].weakTag}
                /\ statCache' = statCache
           /\ ( /\ cacheKey \in DOMAIN statCache
                /\ now >= statCache[cacheKey].timestamp + STAT_CACHE_TTL ) =>
                /\ last'.path = "stat_expired"
                /\ statCache'[cacheKey].timestamp = now]_vars

\* a hit on an entry inserted before the clock moved
C7_Witness ==
  /\ last.path = "stat_hit"
  /\ \E k \in DOMAIN statCache :
       /\ statCache[k].timestamp < now
       /\ ret \in {statCache[k].strongTag, statCache[k].weakTag}

(***************************************************************************)
(* C8.  etag throws a TypeError for null, undefined, a number and an       *)
(* object that has not the shape of a descriptor, and the failing call     *)
(* leaves the content cache, its key list and the metadata cache as they   *)
(* were.                                                                   *)
(***************************************************************************)
C8_InvalidArgument ==
  [][\A entity \in Invalids, options \in Options :
       Called(entity, options) =>
         /\ ret' = "TypeError"
         /\ hashCache' = hashCache
         /\ hashCacheKeys' = hashCacheKeys
         /\ statCache' = statCache]_vars

\* a call failed while both caches held entries
C8_Witness ==
  /\ last.path = "throw"
  /\ ret = "TypeError"
  /\ hashCache # EmptyMap
  /\ statCache # EmptyMap

(***************************************************************************)
(* C9.  Weak or strong: the tag returned is weak exactly when options.weak *)
(* is true, if it is a boolean; else exactly when the entity is a          *)
(* descriptor.  So on hits and on misses of either cache.                  *)
(***************************************************************************)
C9_WeakSelection ==
  [][\A entity \in PayloadArgs \cup StatArgs, options \in Options :
       Called(entity, options) =>
         IF ExpectedWeak(entity, options)
         THEN IsWeakTag(ret')
         ELSE IsStrongTag(ret')]_vars

\* a weak tag served by a hit of the content cache
C9_Witness ==
  /\ last.path = "hit"
  /\ IsWeakTag(ret)
  /\ statCache # EmptyMap

(***************************************************************************)
(* C10.  Empty payload: etag of a string or Buffer of length 0 returns     *)
(* "0-2jmj7l5rSw0yVb/vlWAYkK/YBwk" in quotes, with W/ in front when weak,  *)
(* which is the tag the digest path gives for no bytes, and leaves the     *)
(* content cache, its key list and the metadata cache as they were.        *)
(***************************************************************************)
C10_EmptyPayload ==
  [][\A entity \in PayloadArgs, options \in Options :
       (Called(entity, options) /\ ~NonEmpty(entity)) =>
         /\ ret' = Prefix(ExpectedWeak(entity, options))
                     \o "\"0-2jmj7l5rSw0yVb/vlWAYkK/YBwk\""
         /\ ret' = Prefix(ExpectedWeak(entity, options)) \o StrongTag(<<>>)
         /\ hashCache' = hashCache
         /\ hashCacheKeys' = hashCacheKeys
         /\ statCache' = statCache]_vars

\* the empty tag was returned while both caches held entries
C10_Witness ==
  /\ last.path = "empty"
  /\ ret \in {"\"0-2jmj7l5rSw0yVb/vlWAYkK/YBwk\"", "W/\"0-2jmj7l5rSw0yVb/vlWAYkK/YBwk\""}
  /\ hashCache # EmptyMap
  /\ statCache # EmptyMap

(***************************************************************************)
(* What routing to the metadata cache and the shape of a descriptor are.   *)
(***************************************************************************)
Routed(l) == l.path \in {"stat_hit", "stat_miss", "stat_expired"}

\* ctime and mtime are Dates, ino and size are numbers
HasShape(entity) ==
  /\ entity.kind \in {"object", "Stats"}
  /\ entity.ctime.t = "Date" /\ entity.mtime.t = "Date"
  /\ entity.ino.t = "number" /\ entity.size.t = "number"

NonPayloadArgs == StatArgs \cup OddStats \cup Invalids

(***************************************************************************)
(* C11.  Metadata detection: an input that is no payload goes to the       *)
(* metadata cache if and only if ctime and mtime are Dates and ino and     *)
(* size are numbers, whatever its type; any other is rejected with a       *)
(* TypeError.                                                              *)
(***************************************************************************)
C11_ShapeAlone ==
  [][\A entity \in NonPayloadArgs, options \in Options :
       Called(entity, options) =>
         /\ Routed(last') <=> HasShape(entity)
         /\ ~HasShape(entity) => ret' = "TypeError"]_vars

(***************************************************************************)
(* C12.  No check of size on a hit: when the entry of key ino-mtime is     *)
(* younger than STAT_CACHE_TTL and holds the tag of another size, a call   *)
(* with a descriptor of that inode and mtime returns the tag held in the   *)
(* entry, which was built from the size seen at insertion and is not the   *)
(* tag of the size supplied, and leaves the entry as it was.               *)
(***************************************************************************)
C12_SizeNotVerified ==
  [][\A stat \in StatArgs, options \in Options :
       LET cacheKey == statCacheKey(stat)
           own == MetadataTag(stat.size.v, stat.mtime.v)
           prefix == Prefix(ExpectedWeak(stat, options))
       IN ( /\ Called(stat, options)
            /\ Young(cacheKey)
            /\ statCache[cacheKey].strongTag # own ) =>
            /\ ret' = prefix \o statCache[cacheKey].strongTag
            /\ ret' # prefix \o own
            /\ \E size \in SizesUsed \ {stat.size.v} :
                 ret' = prefix \o MetadataTag(size, stat.mtime.v)
            /\ cacheKey \in DOMAIN statCache'
            /\ statCache'[cacheKey] = statCache[cacheKey]]_vars

\* a hit returned the tag of a size that the descriptor of the call has not
C12_Witness ==
  /\ last.path = "stat_hit"
  /\ last.arg \in StatArgs
  /\ statCacheKey(last.arg) \in DOMAIN statCache
  /\ statCache[statCacheKey(last.arg)].strongTag
       # MetadataTag(last.arg.size.v, last.arg.mtime.v)
  /\ ret \in { statCache[statCacheKey(last.arg)].strongTag,
               statCache[statCacheKey(last.arg)].weakTag }

(***************************************************************************)
(* What C13 speaks of: the keys after the insertion of cacheKey, the       *)
(* entries that are at least the TTL old at the call, and the state in     *)
(* which the cache is small or holds young entries only.                   *)
(***************************************************************************)
KeysWith(cacheKey) == DOMAIN statCache \cup {cacheKey}

Stale(cacheKey) ==
  {k \in DOMAIN statCache \ {cacheKey} :
     now - statCache[k].timestamp >= STAT_CACHE_TTL}

SmallOrYoung(cache) ==
  \/ MapSize(cache) <= HASH_CACHE_SIZE
  \/ \A k \in DOMAIN cache : now - cache[k].timestamp < STAT_CACHE_TTL

\* what an insertion does to the other entries
SweptAsStated(cacheKey) ==
  LET many == Cardinality(KeysWith(cacheKey)) > HASH_CACHE_SIZE IN
    /\ many => DOMAIN statCache' = KeysWith(cacheKey) \ Stale(cacheKey)
    /\ ~many => DOMAIN statCache' = KeysWith(cacheKey)
    /\ statCache'[cacheKey].timestamp = now
    /\ \A k \in DOMAIN statCache' \ {cacheKey} : statCache'[k] = statCache[k]

(***************************************************************************)
(* C13, as stated.  Sweep policy: an insertion into the metadata cache     *)
(* that leaves more than HASH_CACHE_SIZE entries removes every entry at    *)
(* least STAT_CACHE_TTL old and no younger one, the inserted entry stays;  *)
(* an insertion that leaves at most HASH_CACHE_SIZE entries removes        *)
(* nothing; and after every call the cache has at most HASH_CACHE_SIZE     *)
(* entries or holds only entries younger than the TTL.                     *)
(***************************************************************************)
C13_SmallOrYoungAfterEveryCall ==
  [][\A stat \in StatArgs, options \in Options :
       LET cacheKey == statCacheKey(stat) IN
         Called(stat, options) =>
           /\ ~Young(cacheKey) => SweptAsStated(cacheKey)
           /\ SmallOrYoung(statCache')]_vars

(***************************************************************************)
(* C13, amended.  The same policy for the insertion; the cache has at most *)
(* HASH_CACHE_SIZE entries or only young ones after every call that        *)
(* inserts.  A call served by a young entry sweeps nothing, so it can      *)
(* leave more than HASH_CACHE_SIZE entries with stale ones among them.     *)
(***************************************************************************)
C13_SweepPolicy ==
  [][\A stat \in StatArgs, options \in Options :
       LET cacheKey == statCacheKey(stat) IN
         Called(stat, options) =>
           /\ ~Young(cacheKey) =>
                (SweptAsStated(cacheKey) /\ SmallOrYoung(statCache'))
           /\ Young(cacheKey) => statCache' = statCache]_vars

\* an insertion swept: a stale entry went, a younger one and the new one stayed
C13_Witness ==
  /\ last.path = "stat_miss"
  /\ last.swept
  /\ MapSize(statCache) = HASH_CACHE_SIZE
  /\ statCache[statCacheKey(last.arg)].timestamp = now
  /\ \E k \in DOMAIN statCache :
       /\ statCache[k].timestamp < now
       /\ now - statCache[k].timestamp < STAT_CACHE_TTL

C15_CollisionOverwrite ==
  [][\A entity \in PayloadArgs, options \in Options :
       LET cacheKey == entityCacheKey(entity, heap)
           own == StrongTag(BytesOf(entity, heap))
       IN ( /\ CalledWith(entity, options)
            /\ NonEmpty(entity)
            /\ cacheKey \in DOMAIN hashCache
            /\ BytesOf(hashCache[cacheKey].entity, heap) # BytesOf(entity, heap) ) =>
            /\ cacheKey \in DOMAIN hashCache'
            /\ hashCache'[cacheKey] = [entity |-> entity, tag |-> own]
            /\ hashCache'[cacheKey].entity # hashCache[cacheKey].entity
            /\ hashCache'[cacheKey].tag
                 # StrongTag(BytesOf(hashCache[cacheKey].entity, heap))
            /\ ret' \in {own, "W/" \o own}]_vars

\* the Buffer aaa took the place of the Buffer aba under their key 3-97-97
C15_Witness ==
  /\ last.path = "mismatch"
  /\ last.arg = Buf(2)
  /\ heap[1] = <<97, 98, 97>>
  /\ heap[2] = <<97, 97, 97>>
  /\ hashCacheKeys = <<"3-97-97", "3-97-97">>
  /\ DOMAIN hashCache = {"3-97-97"}
  /\ hashCache["3-97-97"] = [entity |-> Buf(2), tag |-> StrongTag(heap[2])]

(***************************************************************************)
(* The strong tags a call can return in the current state: those held in   *)
(* the two caches and the one computed from the input.                     *)
(***************************************************************************)
StrongTags(entity) ==
  {hashCache[k].tag : k \in DOMAIN hashCache}
    \cup {statCache[k].strongTag : k \in DOMAIN statCache}
    \cup (IF entity \in PayloadArgs
          THEN {StrongTag(BytesOf(entity, heap))}
          ELSE {MetadataTag(entity.size.v, entity.mtime.v)})

(***************************************************************************)
(* C16.  Weak and strong agree: in every reachable state and for every     *)
(* payload and descriptor, the call with weak: true returns W/ followed by *)
(* what the call with weak: false returns in that state; every entry of    *)
(* the metadata cache holds as its weak tag W/ followed by its strong tag; *)
(* the content cache holds strong tags only.                               *)
(***************************************************************************)
C16_WeakIsPrefixedStrong ==
  /\ \A entity \in PayloadArgs \cup StatArgs :
       \E tag \in StrongTags(entity) :
         /\ ENABLED (Called(entity, WeakFalse) /\ ret' = tag)
         /\ ENABLED (Called(entity, WeakTrue) /\ ret' = "W/" \o tag)
  /\ \A k \in DOMAIN statCache :
       /\ IsStrongTag(statCache[k].strongTag)
       /\ statCache[k].weakTag = "W/" \o statCache[k].strongTag
  /\ \A k \in DOMAIN hashCache :
       IsStrongTag(hashCache[k].tag) /\ ~IsWeakTag(hashCache[k].tag)

\* both caches hold entries and the last call was served the weak tag of one
C16_Witness ==
  /\ last.path = "stat_hit"
  /\ ret = statCache[statCacheKey(last.arg)].weakTag
  /\ IsWeakTag(ret)
  /\ hashCache # EmptyMap

(***************************************************************************)
(* C17.  Key list and map agree: in every reachable state the key list     *)
(* holds each key of the content cache once and no other key, so its       *)
(* length is the size of the map and its head is a key of the map.         *)
(***************************************************************************)
C17_KeyListIsMapKeys ==
  /\ {hashCacheKeys[i] : i \in 1..Len(hashCacheKeys)} = DOMAIN hashCache
  /\ \A i, j \in 1..Len(hashCacheKeys) :
       hashCacheKeys[i] = hashCacheKeys[j] => i = j
  /\ Len(hashCacheKeys) = MapSize(hashCache)
  /\ hashCacheKeys # <<>> => Head(hashCacheKeys) \in DOMAIN hashCache

(***************************************************************************)
(* C18.  Eviction only to make room: an insertion into the content cache   *)
(* removes an entry of another key only when the incoming key is not in    *)
(* the map and the map holds HASH_CACHE_SIZE entries; an insertion over a  *)
(* key that is present removes no other entry and leaves the number of     *)
(* entries as it was.                                                      *)
(***************************************************************************)
C18_EvictionOnlyForRoom ==
  [][\A entity \in PayloadArgs, options \in Options :
       LET cacheKey == entityCacheKey(entity, heap)
           removed == (DOMAIN hashCache \ {cacheKey}) \ DOMAIN hashCache'
       IN ( /\ Called(entity, options)
            /\ NonEmpty(entity)
            /\ last'.path \in {"miss", "mismatch"} ) =>
            /\ removed # {} =>
                 /\ cacheKey \notin DOMAIN hashCache
                 /\ MapSize(hashCache) = HASH_CACHE_SIZE
            /\ cacheKey \in DOMAIN hashCache =>
                 /\ removed = {}
                 /\ MapSize(hashCache') = MapSize(hashCache)]_vars

(***************************************************************************)
(* The fingerprint key as the interface states it: the length in bytes,    *)
(* then the first and the last byte of a Buffer, or the codes of the first *)
(* and the last character of a text.                                       *)
(***************************************************************************)
KeyAsStated(entity) ==
  LET bytes == BytesOf(entity, heap)
      units == IF entity.kind = "buffer" THEN bytes ELSE entity.chars
  IN toString(Len(bytes), 10) \o "-" \o toString(units[1], 10)
       \o "-" \o toString(units[Len(units)], 10)

(***************************************************************************)
(* C19.  Fingerprint key: a non-empty payload that is inserted is stored   *)
(* under "<length in bytes>-<first>-<last>", with the first and last byte  *)
(* of a Buffer, and for a text the UTF-8 length and the codes of its first *)
(* and last character, multi-byte characters included.                     *)
(***************************************************************************)
C19_KeyDerivation ==
  [][\A entity \in PayloadArgs, options \in Options :
       ( /\ Called(entity, options)
         /\ NonEmpty(entity)
         /\ last'.path \in {"miss", "mismatch"} ) =>
         /\ hashCacheKeys'[Len(hashCacheKeys')] = KeyAsStated(entity)
         /\ KeyAsStated(entity) \in DOMAIN hashCache'
         /\ hashCache'[KeyAsStated(entity)].entity = entity]_vars

====
